---------------------------- MODULE Spec2Model ----------------------------
(***************************************************************************)
(* Recovery & resilience test harness (pytest fixtures of conftest.py and  *)
(* the scenarios of tests/) together with the service it drives (the       *)
(* FastAPI handlers of app/main.py over the user table of app/models.py)   *)
(* and the two containers the scenarios stop, start and restart.           *)
(*                                                                         *)
(* Time is abstracted: a sleep is a step at which the environment may      *)
(* move, a timeout is an outcome that may be taken while the awaited       *)
(* event has not happened.                                                 *)
(***************************************************************************)
EXTENDS Integers, Sequences, FiniteSets, TLC

(***************************************************************************)
(* Bounds of the model (not program constants).                            *)
(***************************************************************************)
\* max_attempts passed to wait_for_health (30 and 40 in the scenarios)
MaxAttempts == 3
\* users created by test_full_system_restart (5) / test_state_persistence (10)
NumUsers == 2
\* requests the load generator issues in one run
MaxLoad == 2
\* create_engine(pool_size=3, max_overflow=5)
PoolSize == 1
MaxOverflow == 2
\* concurrent creates of test_connection_pool_exhaustion_handling (10)
NumCreates == 5
\* harness runs driving the same containers side by side
NumCallers == 2
\* concurrent calls of record_request
NumRecords == 3
\* requests handled by the API at the same time
NumHandlers == 2
\* simulated users of the load generator (--users 10)
NumLoadUsers == 2

(***************************************************************************)
(* Program constants.                                                      *)
(***************************************************************************)
FASTAPI_CONTAINER == "recovery_fastapi"
POSTGRES_CONTAINER == "recovery_postgres"
Targets == {FASTAPI_CONTAINER, POSTGRES_CONTAINER}
\* assert error_rate < 30
ErrorRateThreshold == 30
\* default wait_time of restart_container and start_container
DOCKER_WAIT_SECONDS == 10
\* wait_for_health: timeout=httpx.Timeout(5.0) of its client, in seconds
WaitProbeTimeout == 5
\* wait_for_health: delay_seconds, 1.0 by default and in the one call that passes it
DefaultDelaySeconds == 1

VARIABLES
    \* ---- the system under test
    container,      \* container name -> "stopped" | "booting" | "running"
    users,          \* rows of the users table: [id, email]
    nextId,         \* next value of the users.id sequence
    \* ---- wait_for_health._wait
    wpc,            \* "idle" | "probe" | "sleep" | "done"
    max_attempts,   \* the argument of the call
    attempt,        \* loop variable
    probeLog,       \* status of every probe issued by the call, in order (0: RequestError)
    warnLog,        \* attempts logged by logger.warning
    infoLog,        \* attempts logged by logger.info ("healthy after %d attempts")
    errorLog,       \* attempt counts logged by logger.error ("did not recover after %d")
    waitResult,     \* "none" | "true" | "false": the value returned
    \* ---- _delete_all_users (the clean_database fixture)
    rpc,            \* "idle" | "get" | "loop"
    todo,           \* ids of the listed users still to delete
    resetLog,       \* status of every request of the reset in progress (0: RequestError)
    \* ---- _run_docker_command
    action,         \* the lifecycle command in progress, or NoAction
    \* ---- the locust process and its report file
    locust,         \* "none" | "starting" | "running" | "terminating" | "exited"
    stats,          \* request kind -> [n: requests, f: failures] of this run
    csv,            \* reports/chaos_load_stats.csv: [exists, run, lines]
    \* ---- the pytest run of one scenario
    test,           \* the test function
    phase,          \* "setup" | "body" | "teardown" | "finished"
    verdict,        \* "none" | "Passed" | "Failed" | "Skipped"
    reason,         \* what ended the body
    pc,             \* index of the body's next statement
    dpc,            \* "idle" | "wait10": inside the drain's except branch
    user_id,        \* local of test_container_restart_recovery
    target_container, \* local of test_load_with_random_container_failure
    recovered,      \* "none" | "true" | "false": what the body got from wait_for_health
    lastResp,       \* the last response the body received
    analysis,       \* what Step 5 computed: [evaluated, total_requests, failed_requests]
    startUsers,     \* the table when the body started (history)
    acked,          \* the users whose create returned 201 in this body (history)
    \* ---- the handler threads of concurrent requests
    pool,           \* create request -> where its handler is with the connection pool
    \* ---- callers of the docker helpers running side by side
    calls,          \* caller -> the lifecycle command it is in, or NoAction
    \* ---- wall-clock time
    overBudget,     \* the scenario has been running longer than its global budget
    \* ---- app/metrics.py
    app_requests_total,   \* _metrics["app_requests_total"]
    app_requests_failed,  \* _metrics["app_requests_failed"]
    recording,      \* handler thread -> where it is in record_request
    \* ---- app/database.py: sessions of get_db and the engine's pool
    handlers,       \* request -> its handler thread: statement, session, connection
    pooled,         \* the pool: [idle: its idle connection, others: held by other requests]
    \* ---- the simulated users of the load generator
    greenlets       \* load user -> the create request it is issuing

sysVars == <<container, users, nextId>>
waitVars == <<wpc, max_attempts, attempt, probeLog, warnLog, infoLog, errorLog, waitResult>>
resetVars == <<rpc, todo, resetLog>>
loadVars == <<locust, stats, csv>>
runVars == <<test, phase, verdict, reason, pc>>
localVars == <<dpc, user_id, target_container, recovered, lastResp, analysis>>
histVars == <<startUsers, acked>>
metricsVars == <<app_requests_total, app_requests_failed, recording>>
concVars == <<handlers, pooled, greenlets>>
appVars == <<pool, calls, overBudget, metricsVars, concVars>>
harnessVars == <<resetVars, action, runVars, localVars, histVars, appVars>>
vars == <<sysVars, waitVars, harnessVars, loadVars>>

(***************************************************************************)
(* The service: app/main.py over app/database.py and app/models.py.        *)
(***************************************************************************)
\* uvicorn accepts connections only once the container has booted
ApiServes == container[FASTAPI_CONTAINER] = "running"
\* a query succeeds only against a running postgres
DbReachable == container[POSTGRES_CONTAINER] = "running"

\* a response as the client sees it; status 0: no response (httpx.RequestError)
Response(status, body) == [status |-> status, body |-> body]
NoResponse == Response(0, {})

\* what a handler did: its response and the table afterwards
Handled(status, body, us, nid) ==
    [status |-> status, body |-> body, users |-> us, nextId |-> nid]

\* get_db: an OperationalError (database down) leaves the handler through the
\* dependency, which rolls back, disposes the pool and re-raises: a 500
DbDown == Handled(500, {}, users, nextId)

\* mutant of health_check: answers without querying the database
health_check_no_query == Handled(200, {}, users, nextId)

\* GET /health: db.execute(text("SELECT 1")) through get_db, then the answer
health_check ==
    IF ~DbReachable THEN DbDown
    ELSE Handled(200, {}, users, nextId)

\* mutant of create_user: the IntegrityError is answered with 400 but the
\* row stays (no rollback)
create_user_no_rollback(email) ==
    IF ~DbReachable THEN DbDown
    ELSE LET db_user == [id |-> nextId, email |-> email]
         IN IF \E u \in users : u.email = email
            THEN Handled(400, {}, users \cup {db_user}, nextId + 1)
            ELSE Handled(201, {db_user}, users \cup {db_user}, nextId + 1)

\* mutant of create_user: users.email has no unique index
create_user_no_unique_index(email) ==
    IF ~DbReachable THEN DbDown
    ELSE LET db_user == [id |-> nextId, email |-> email]
         IN Handled(201, {db_user}, users \cup {db_user}, nextId + 1)

\* POST /users/ : the unique index on email raises IntegrityError at commit;
\* db.rollback() undoes the insert, the id drawn from the sequence is not reused
create_user(email) ==
    IF ~DbReachable THEN DbDown
    ELSE LET db_user == [id |-> nextId, email |-> email]
         IN IF \E u \in users : u.email = email
            THEN Handled(400, {}, users, nextId + 1)
            ELSE Handled(201, {db_user}, users \cup {db_user}, nextId + 1)

\* GET /users/
list_users ==
    IF ~DbReachable THEN DbDown
    ELSE Handled(200, users, users, nextId)

\* GET /users/{user_id}
get_user(uid) ==
    IF ~DbReachable THEN DbDown
    ELSE LET found == {u \in users : u.id = uid}
         IN IF found = {} THEN Handled(404, {}, users, nextId)
            ELSE Handled(200, found, users, nextId)

\* mutant of delete_user: the row is not removed
delete_user_keeps_row(uid) ==
    IF ~DbReachable THEN DbDown
    ELSE LET found == {u \in users : u.id = uid}
         IN IF found = {} THEN Handled(404, {}, users, nextId)
            ELSE Handled(200, {}, users, nextId)

\* DELETE /users/{user_id}
delete_user(uid) ==
    IF ~DbReachable THEN DbDown
    ELSE LET found == {u \in users : u.id = uid}
         IN IF found = {} THEN Handled(404, {}, users, nextId)
            ELSE Handled(200, {}, users \ found, nextId)

\* the handler a request is routed to
Route(req) ==
    CASE req.m = "HEALTH" -> health_check
      [] req.m = "POST"   -> create_user(req.email)
      [] req.m = "LIST"   -> list_users
      [] req.m = "GET"    -> get_user(req.id)
      [] req.m = "DELETE" -> delete_user(req.id)

\* One request through an httpx client with a timeout: connection refused
\* while the API is not serving; otherwise the handler's answer, or a
\* timeout that fires before the handler ran or after it committed.
Exchange(req) ==
    IF ~ApiServes THEN {Handled(0, {}, users, nextId)}
    ELSE LET h == Route(req)
         IN {h, Handled(0, {}, users, nextId), Handled(0, {}, h.users, h.nextId)}

(***************************************************************************)
(* record_request (app/metrics.py), called by the /metrics handler, which  *)
(* runs in a worker thread per request.  `d[k] += 1` is a read, an add and *)
(* a write of the shared dict; another thread may run in between.          *)
(***************************************************************************)
Recorders == 1..NumRecords
NotRecording == [r \in Recorders |-> [pc |-> "idle", success |-> TRUE, read |-> 0]]

\* record_request(success) is entered
RecordCall(r, success) ==
    /\ recording[r].pc = "idle"
    /\ recording' = [recording EXCEPT ![r] = [pc |-> "read_total", success |-> success, read |-> 0]]
    /\ UNCHANGED <<app_requests_total, app_requests_failed>>
    /\ UNCHANGED <<sysVars, waitVars, resetVars, action, runVars, localVars, histVars, loadVars, pool, calls, overBudget, concVars>>

\* _metrics["app_requests_total"] += 1: the read
RecordReadTotal(r) ==
    /\ recording[r].pc = "read_total"
    /\ recording' = [recording EXCEPT ![r].pc = "write_total", ![r].read = app_requests_total]
    /\ UNCHANGED <<app_requests_total, app_requests_failed>>
    /\ UNCHANGED <<sysVars, waitVars, resetVars, action, runVars, localVars, histVars, loadVars, pool, calls, overBudget, concVars>>

\* ... and the write; then `if not success`
RecordWriteTotal(r) ==
    /\ recording[r].pc = "write_total"
    /\ app_requests_total' = recording[r].read + 1
    /\ recording' = [recording EXCEPT ![r].pc = IF recording[r].success THEN "done" ELSE "read_failed"]
    /\ UNCHANGED app_requests_failed
    /\ UNCHANGED <<sysVars, waitVars, resetVars, action, runVars, localVars, histVars, loadVars, pool, calls, overBudget, concVars>>

\* _metrics["app_requests_failed"] += 1: the read
RecordReadFailed(r) ==
    /\ recording[r].pc = "read_failed"
    /\ recording' = [recording EXCEPT ![r].pc = "write_failed", ![r].read = app_requests_failed]
    /\ UNCHANGED <<app_requests_total, app_requests_failed>>
    /\ UNCHANGED <<sysVars, waitVars, resetVars, action, runVars, localVars, histVars, loadVars, pool, calls, overBudget, concVars>>

\* ... and the write
RecordWriteFailed(r) ==
    /\ recording[r].pc = "write_failed"
    /\ app_requests_failed' = recording[r].read + 1
    /\ recording' = [recording EXCEPT ![r].pc = "done"]
    /\ UNCHANGED app_requests_total
    /\ UNCHANGED <<sysVars, waitVars, resetVars, action, runVars, localVars, histVars, loadVars, pool, calls, overBudget, concVars>>

(***************************************************************************)
(* wait_for_health._wait (conftest.py)                                     *)
(***************************************************************************)
\* mutant of WaitClassify: a 200 is logged but the loop goes on polling
WaitClassifyKeepsPolling(x) ==
    /\ wpc' = "sleep"
    /\ infoLog' = IF x.status = 200 THEN Append(infoLog, attempt) ELSE infoLog
    /\ warnLog' = IF x.status = 0 THEN Append(warnLog, attempt) ELSE warnLog
    /\ UNCHANGED waitResult

\* what the loop body does with the outcome of client.get("/health"):
\* status 200 logs and returns True; a RequestError is logged as a warning;
\* any other status falls through to the sleep
WaitClassify(x) ==
    IF x.status = 200
    THEN /\ infoLog' = Append(infoLog, attempt)
         /\ waitResult' = "true"
         /\ wpc' = "done"
         /\ warnLog' = warnLog
    ELSE /\ wpc' = "sleep"
         /\ warnLog' = IF x.status = 0 THEN Append(warnLog, attempt) ELSE warnLog
         /\ UNCHANGED <<infoLog, waitResult>>

\* mutant of InRange: range(1, max_attempts)
InRangeOffByOne == attempt < max_attempts

\* for attempt in range(1, max_attempts + 1)
InRange == attempt <= max_attempts

\* the call: _wait(max_attempts=n)
WaitEnter(n) ==
    /\ max_attempts' = n
    /\ attempt' = 1
    /\ probeLog' = <<>>
    /\ warnLog' = <<>>
    /\ infoLog' = <<>>
    /\ errorLog' = <<>>
    /\ waitResult' = "none"
    /\ wpc' = "probe"

WaitProbe ==
    /\ wpc = "probe"
    /\ InRange
    /\ \E x \in Exchange([m |-> "HEALTH"]) :
         /\ probeLog' = Append(probeLog, x.status)
         /\ WaitClassify(x)
    /\ UNCHANGED <<sysVars, max_attempts, attempt, errorLog, harnessVars, loadVars>>

\* await asyncio.sleep(delay_seconds), then the next iteration
WaitSleep ==
    /\ wpc = "sleep"
    /\ attempt' = attempt + 1
    /\ wpc' = "probe"
    /\ UNCHANGED <<sysVars, max_attempts, probeLog, warnLog, infoLog, errorLog, waitResult>>
    /\ UNCHANGED <<harnessVars, loadVars>>

\* the loop is exhausted: logger.error(...), return False
WaitExhausted ==
    /\ wpc = "probe"
    /\ ~InRange
    /\ errorLog' = Append(errorLog, max_attempts)
    /\ waitResult' = "false"
    /\ wpc' = "done"
    /\ UNCHANGED <<sysVars, max_attempts, attempt, probeLog, warnLog, infoLog>>
    /\ UNCHANGED <<harnessVars, loadVars>>

(***************************************************************************)
(* The containers: what docker does to them, and their own progress.       *)
(***************************************************************************)
\* mutant of init_db: the schema is dropped and created again on startup
init_db_recreates == {}

\* on_startup -> init_db: create_all leaves existing tables and rows alone
init_db == users

\* a started container finishes booting; the API's startup runs init_db and
\* fails (the process exits) when the database is not reachable
Boot(t) ==
    /\ container[t] = "booting"
    /\ IF t = FASTAPI_CONTAINER /\ ~DbReachable
       THEN /\ container' = [container EXCEPT ![t] = "stopped"]
            /\ UNCHANGED users
       ELSE /\ container' = [container EXCEPT ![t] = "running"]
            /\ users' = IF t = FASTAPI_CONTAINER THEN init_db ELSE users
    /\ UNCHANGED <<nextId, waitVars, harnessVars, loadVars>>

\* docker stop | start | restart <name>, when the command exits 0
Lifecycle(cmd, t) ==
    CASE cmd = "stop"    -> [container EXCEPT ![t] = "stopped"]
      [] cmd = "start"   -> IF container[t] = "stopped"
                            THEN [container EXCEPT ![t] = "booting"]
                            ELSE container
      [] cmd = "restart" -> [container EXCEPT ![t] = "booting"]

(***************************************************************************)
(* _run_docker_command (conftest.py): subprocess.run, then time.sleep.     *)
(***************************************************************************)
NoAction ==
    [cmd |-> "none", target |-> "none", wait_time |-> 0,
     stage |-> "idle", ok |-> FALSE, caller |-> "gone"]

\* the call: the command is handed to subprocess.run
DockerCall(cmd, t, wait_time) ==
    action' = [cmd |-> cmd, target |-> t, wait_time |-> wait_time,
               stage |-> "run", ok |-> FALSE, caller |-> "blocked"]

\* subprocess.run(command, check=True) comes back: exit code 0, a non-zero
\* exit code (CalledProcessError, caught: return False), or the command
\* could not be executed at all (OSError, not caught)
DockerExec ==
    /\ action.stage = "run"
    /\ \/ /\ container' = Lifecycle(action.cmd, action.target)
          /\ action' = [action EXCEPT !.ok = TRUE,
                           !.stage = IF action.wait_time > 0 THEN "settle" ELSE "done"]
       \/ /\ action' = [action EXCEPT !.ok = FALSE, !.stage = "done"]
          /\ UNCHANGED container
       \/ /\ action' = [action EXCEPT !.ok = FALSE, !.stage = "raised"]
          /\ UNCHANGED container
    /\ UNCHANGED <<users, nextId, waitVars, resetVars, runVars, appVars, localVars, histVars, loadVars>>

\* if wait_time > 0: time.sleep(wait_time)
DockerSettle ==
    /\ action.stage = "settle"
    /\ action' = [action EXCEPT !.stage = "done"]
    /\ UNCHANGED <<sysVars, waitVars, resetVars, runVars, appVars, localVars, histVars, loadVars>>

\* restart_container / stop_container / start_container with their defaults
Commands == {"stop", "start", "restart"}
DefaultWait(cmd) == IF cmd = "stop" THEN 0 ELSE DOCKER_WAIT_SECONDS

Callers == 1..NumCallers
NoCalls == [w \in Callers |-> NoAction]

\* a caller enters _run_docker_command: nothing is acquired or waited for
\* before subprocess.run
CallerCall(w, cmd, t) ==
    /\ calls[w].stage = "idle"
    /\ calls' = [calls EXCEPT ![w] =
                   [cmd |-> cmd, target |-> t, wait_time |-> DefaultWait(cmd),
                    stage |-> "run", ok |-> FALSE, caller |-> "blocked"]]
    /\ UNCHANGED <<sysVars, waitVars, resetVars, action, runVars, localVars, histVars, loadVars, pool, overBudget, metricsVars, concVars>>

\* subprocess.run comes back for this caller
CallerExec(w) ==
    /\ calls[w].stage = "run"
    /\ \/ /\ container' = Lifecycle(calls[w].cmd, calls[w].target)
          /\ calls' = [calls EXCEPT ![w].ok = TRUE,
                          ![w].stage = IF calls[w].wait_time > 0 THEN "settle" ELSE "done"]
       \/ /\ calls' = [calls EXCEPT ![w].ok = FALSE, ![w].stage = "done"]
          /\ UNCHANGED container
       \/ /\ calls' = [calls EXCEPT ![w].ok = FALSE, ![w].stage = "raised"]
          /\ UNCHANGED container
    /\ UNCHANGED <<users, nextId, waitVars, resetVars, action, runVars, localVars, histVars, loadVars, pool, overBudget, metricsVars, concVars>>

\* time.sleep(wait_time) of this caller
CallerSettle(w) ==
    /\ calls[w].stage = "settle"
    /\ calls' = [calls EXCEPT ![w].stage = "done"]
    /\ UNCHANGED <<sysVars, waitVars, resetVars, action, runVars, localVars, histVars, loadVars, pool, overBudget, metricsVars, concVars>>

\* the helper returns (or raises) to this caller
CallerReturn(w) ==
    /\ calls[w].stage \in {"done", "raised"}
    /\ calls' = [calls EXCEPT ![w] = NoAction]
    /\ UNCHANGED <<sysVars, waitVars, resetVars, action, runVars, localVars, histVars, loadVars, pool, overBudget, metricsVars, concVars>>

\* mutant of DockerReturned: the command is spawned and not waited for
DockerReturnedEarly == action.stage # "idle"

\* the caller gets control back only when subprocess.run and the sleep are over
DockerReturned == action.stage \in {"done", "raised"}

(***************************************************************************)
(* The locust process (locust_tests/locustfile.py) and its stats file.     *)
(***************************************************************************)
\* rows of the stats file are sorted by request name, then method
Kinds == <<"health_check", "list_users", "create_user">>
KindSet == {Kinds[i] : i \in 1..Len(Kinds)}
NoStats == [k \in KindSet |-> [n |-> 0, f |-> 0]]

\* environment.stats.num_requests / num_failures
num_requests == stats["health_check"].n + stats["list_users"].n + stats["create_user"].n
num_failures == stats["health_check"].f + stats["list_users"].f + stats["create_user"].f

\* str(n) and int(s) for the counts of a stats row
Digits == <<"0", "1", "2", "3", "4", "5", "6", "7", "8", "9">>
FormatInt(n) == Digits[n + 1]
IsInt(s) == \E n \in 0..9 : FormatInt(n) = s
ParseInt(s) == CHOOSE n \in 0..9 : FormatInt(n) = s

CsvHeader == <<"Type", "Name", "Request Count", "Failure Count">>
CsvRow(k, st) ==
    CASE k = "health_check" -> <<"GET", "/health", FormatInt(st[k].n), FormatInt(st[k].f)>>
      [] k = "list_users"   -> <<"GET", "/users/", FormatInt(st[k].n), FormatInt(st[k].f)>>
      [] k = "create_user"  -> <<"POST", "/users/", FormatInt(st[k].n), FormatInt(st[k].f)>>

RECURSIVE CsvRows(_, _)
CsvRows(i, st) ==
    IF i > Len(Kinds) THEN <<>>
    ELSE (IF st[Kinds[i]].n > 0 THEN <<CsvRow(Kinds[i], st)>> ELSE <<>>) \o CsvRows(i + 1, st)

\* --csv reports/chaos_load: header, one row per request name seen, Aggregated
CsvOf(st) ==
    <<CsvHeader>> \o CsvRows(1, st) \o
    << <<"", "Aggregated",
         FormatInt(st["health_check"].n + st["list_users"].n + st["create_user"].n),
         FormatInt(st["health_check"].f + st["list_users"].f + st["create_user"].f)>> >>

NoReport == [exists |-> FALSE, run |-> "old", lines |-> <<>>]
Report(run, lines) == [exists |-> TRUE, run |-> run, lines |-> lines]

\* f"loaduser{self.environment.stats.num_requests}@test.com"
LoadEmail == <<"loaduser", num_requests>>

\* the request a task issues and the status it expects
TaskRequest(k) ==
    CASE k = "health_check" -> [m |-> "HEALTH"]
      [] k = "list_users"   -> [m |-> "LIST"]
      [] k = "create_user"  -> [m |-> "POST", email |-> LoadEmail]
TaskExpects(k) == IF k = "create_user" THEN 201 ELSE 200

\* locust comes up: the stats writer opens (truncates) the csv file; the
\* rows it rewrites while the run lasts are replaced by those written at exit
LocustStart ==
    /\ locust = "starting"
    /\ locust' = "running"
    /\ csv' = Report("cur", <<>>)
    /\ UNCHANGED <<stats, sysVars, waitVars, harnessVars>>

\* locust exits before it opened its report (bad arguments, no reports/ directory)
LocustAbort ==
    /\ locust = "starting"
    /\ locust' = "exited"
    /\ UNCHANGED <<stats, csv, sysVars, waitVars, harnessVars>>

\* one task of one simulated user
LocustRequest(k) ==
    /\ locust = "running"
    /\ num_requests < MaxLoad
    /\ \E x \in Exchange(TaskRequest(k)) :
         /\ users' = x.users
         /\ nextId' = x.nextId
         /\ stats' = [stats EXCEPT ![k] =
                        [n |-> @.n + 1,
                         f |-> IF x.status = TaskExpects(k) THEN @.f ELSE @.f + 1]]
    /\ UNCHANGED <<container, locust, csv, waitVars, harnessVars>>

\* --run-time 60s against `await asyncio.sleep(30)`: the scheduled duration,
\* counted from after Popen, cannot be over while the body is still in the
\* sleep that follows Popen (statements 1 and 2 of the body)
RunTimeOver == ~(phase = "body" /\ pc <= 2)

\* the run time is over, or SIGTERM was handled: final stats are written
LocustExit ==
    /\ locust \in {"running", "terminating"}
    /\ locust = "running" => RunTimeOver
    /\ locust' = "exited"
    /\ csv' = IF csv.run = "cur" THEN Report("cur", CsvOf(stats)) ELSE csv
    /\ UNCHANGED <<stats, sysVars, waitVars, harnessVars>>


(***************************************************************************)
(* The scenarios (tests/), statement by statement.                         *)
(***************************************************************************)
Email(name, i) == <<name, i>>
NoEmail == Email("", 0)

Post(email, expect, save) ==
    [op |-> "post", email |-> email, expect |-> expect, save |-> save]
Docker(cmd, t, wait_time, check) ==
    [op |-> "docker", cmd |-> cmd, target |-> t, wait_time |-> wait_time, check |-> check]
Sleep == [op |-> "sleep"]
WaitForHealth(n) ==
    [op |-> "wait_for_health", max_attempts |-> n, delay_seconds |-> DefaultDelaySeconds]
AssertRecovered == [op |-> "assert_recovered"]
\* assert status 200, then len(users) == n (n >= 0) or len(users) > 0 (n = -1),
\* then users[0]["email"] == first_email when one is given
List(n, first_email) == [op |-> "list", n |-> n, first_email |-> first_email]
GetUser(email) == [op |-> "get_user", email |-> email]
Health == [op |-> "health"]

\* TC_001
test_container_restart_recovery ==
    << Post(Email("john", 0), 201, TRUE),
       Docker("restart", FASTAPI_CONTAINER, 15, TRUE),
       WaitForHealth(MaxAttempts),
       AssertRecovered,
       GetUser(Email("john", 0)) >>

\* TC_002
test_database_connection_recovery ==
    << Health,
       Docker("restart", POSTGRES_CONTAINER, 15, TRUE),
       WaitForHealth(MaxAttempts),
       AssertRecovered,
       Post(Email("jane", 0), 201, FALSE) >>

\* TC_004
test_full_system_restart ==
    [i \in 1..NumUsers |-> Post(Email("user", i - 1), 201, FALSE)] \o
    << Docker("stop", FASTAPI_CONTAINER, 0, FALSE),
       Docker("stop", POSTGRES_CONTAINER, 0, FALSE),
       Sleep,
       Docker("start", POSTGRES_CONTAINER, 15, FALSE),
       Docker("start", FASTAPI_CONTAINER, 15, FALSE),
       WaitForHealth(MaxAttempts),
       AssertRecovered,
       List(NumUsers, NoEmail) >>

\* TC_007
test_state_persistence_after_restart ==
    [i \in 1..NumUsers |-> Post(Email("test", i - 1), 201, FALSE)] \o
    << Docker("restart", FASTAPI_CONTAINER, 5, FALSE),
       Docker("restart", POSTGRES_CONTAINER, 15, FALSE),
       WaitForHealth(MaxAttempts),
       AssertRecovered,
       List(NumUsers, NoEmail) >>

\* TC_009
test_transaction_rollback_on_error ==
    << Post(Email("user", 1), 201, FALSE),
       Post(Email("user", 1), 400, FALSE),
       List(1, Email("user", 1)) >>

\* TC_017+025
test_load_with_random_container_failure ==
    << [op |-> "popen"],
       Sleep,
       [op |-> "choice"],
       Docker("stop", "target_container", 0, FALSE),
       Sleep,
       Docker("start", "target_container", 10, FALSE),
       WaitForHealth(MaxAttempts),
       AssertRecovered,
       [op |-> "drain"],
       [op |-> "analyze"],
       List(-1, NoEmail) >>

Tests ==
    {"test_container_restart_recovery", "test_database_connection_recovery",
     "test_full_system_restart", "test_state_persistence_after_restart",
     "test_transaction_rollback_on_error", "test_load_with_random_container_failure"}

Program(t) ==
    CASE t = "test_container_restart_recovery" -> test_container_restart_recovery
      [] t = "test_database_connection_recovery" -> test_database_connection_recovery
      [] t = "test_full_system_restart" -> test_full_system_restart
      [] t = "test_state_persistence_after_restart" -> test_state_persistence_after_restart
      [] t = "test_transaction_rollback_on_error" -> test_transaction_rollback_on_error
      [] t = "test_load_with_random_container_failure" -> test_load_with_random_container_failure
      [] t = "test_connection_pool_exhaustion_handling" -> << [op |-> "gather"] >>

LoadChaos == test = "test_load_with_random_container_failure"

\* the statement the body is at
step == Program(test)[pc]

\* the body is between two statements
Ready ==
    /\ phase = "body"
    /\ wpc = "idle"
    /\ action.caller = "gone"
    /\ dpc = "idle"

(***************************************************************************)
(* How pytest ends a test body.                                            *)
(***************************************************************************)
\* the body is left (return, assertion, exception, pytest.skip): the
\* clean_database fixture resumes after its yield
Finish(v, why) ==
    /\ verdict' = v
    /\ reason' = why
    /\ phase' = "teardown"
    /\ rpc' = "get"
    /\ pc' = pc

\* the next statement, or the end of the function
Continue ==
    IF pc < Len(Program(test))
    THEN pc' = pc + 1 /\ UNCHANGED <<verdict, reason, phase, rpc>>
    ELSE Finish("Passed", "")

\* an assertion: the body goes on only when it holds
AssertThat(cond) == IF cond THEN Continue ELSE Finish("Failed", "AssertionError")

(***************************************************************************)
(* _delete_all_users and the clean_database fixture (conftest.py)          *)
(***************************************************************************)
\* the exception a request of the reset ends with: httpx.RequestError when
\* there is no response, httpx.HTTPStatusError from raise_for_status()
ResetException(status, raise_for_status) ==
    IF status = 0 THEN "RequestError"
    ELSE IF raise_for_status /\ status >= 400 THEN "HTTPStatusError"
    ELSE "none"

\* except httpx.HTTPError (the base class of both) around the list request
ResetListCatches == {"RequestError", "HTTPStatusError"}

\* mutant of ResetDeleteCatches: the delete is not guarded
ResetDeleteCatchesNothing == {}

\* except httpx.RequestError around each delete request
ResetDeleteCatches == {"RequestError"}

\* _delete_all_users returned: setup yields to the body, teardown ends the test
AfterReset(log) ==
    /\ rpc' = "idle"
    /\ todo' = {}
    /\ IF phase = "setup"
       THEN phase' = "body" /\ startUsers' = users' /\ resetLog' = <<>>
       ELSE phase' = "finished" /\ UNCHANGED startUsers /\ resetLog' = log
    /\ UNCHANGED verdict

\* an exception leaves _delete_all_users and the fixture: pytest reports an
\* error (in setup the body is not run)
ResetRaises(log) ==
    /\ rpc' = "raised"
    /\ resetLog' = log
    /\ phase' = "finished"
    /\ verdict' = IF phase = "setup" THEN "Error" ELSE verdict
    /\ UNCHANGED <<todo, startUsers>>

\* response = await client.get("/users/"); response.raise_for_status()
ResetList ==
    /\ rpc = "get"
    /\ \E x \in Exchange([m |-> "LIST"]) :
         LET exc == ResetException(x.status, TRUE)
         IN /\ users' = x.users
            /\ nextId' = x.nextId
            /\ IF exc # "none"
               THEN IF exc \in ResetListCatches
                    THEN AfterReset(<<x.status>>)     \* logger.warning; return
                    ELSE ResetRaises(<<x.status>>)
               ELSE IF {u \in x.body : u.id # 0} # {}
                    THEN /\ todo' = {u.id : u \in {v \in x.body : v.id # 0}}
                         /\ rpc' = "loop"
                         /\ resetLog' = <<x.status>>
                         /\ UNCHANGED <<phase, startUsers, verdict>>
                    ELSE AfterReset(<<x.status>>)
    /\ UNCHANGED <<container, waitVars, action, test, appVars, reason, pc, localVars, acked, loadVars>>

\* await client.delete(f"/users/{user_id}"): the response is not looked at,
\* a RequestError is logged and the loop goes on with the next user
ResetDelete ==
    /\ rpc = "loop"
    /\ LET uid == CHOOSE i \in todo : \A j \in todo : i <= j
       IN \E x \in Exchange([m |-> "DELETE", id |-> uid]) :
            LET exc == ResetException(x.status, FALSE)
                log == Append(resetLog, x.status)
            IN /\ users' = x.users
               /\ nextId' = x.nextId
               /\ IF exc # "none" /\ exc \notin ResetDeleteCatches
                  THEN ResetRaises(log)
                  ELSE IF todo = {uid}
                       THEN AfterReset(log)
                       ELSE /\ todo' = todo \ {uid}
                            /\ resetLog' = log
                            /\ UNCHANGED <<rpc, phase, startUsers, verdict>>
    /\ UNCHANGED <<container, waitVars, action, test, appVars, reason, pc, localVars, acked, loadVars>>

(***************************************************************************)
(* The statements of a body.                                               *)
(***************************************************************************)
\* response = await async_client.post("/users/", json=...); assert status
StepPost ==
    /\ Ready /\ step.op = "post"
    /\ \E x \in Exchange([m |-> "POST", email |-> step.email]) :
         /\ users' = x.users
         /\ nextId' = x.nextId
         /\ lastResp' = Response(x.status, x.body)
         /\ acked' = IF x.status = 201 THEN acked \cup x.body ELSE acked
         /\ IF x.status = 0
            THEN Finish("Failed", "RequestError") /\ UNCHANGED user_id
            ELSE /\ AssertThat(x.status = step.expect)
                 /\ user_id' = IF x.status = step.expect /\ step.save
                               THEN (CHOOSE u \in x.body : TRUE).id
                               ELSE user_id
    /\ UNCHANGED <<container, waitVars, todo, resetLog, action, test, appVars, loadVars>>
    /\ UNCHANGED <<dpc, target_container, recovered, analysis, startUsers>>

\* response = await async_client.get("/health"); assert status 200
StepHealth ==
    /\ Ready /\ step.op = "health"
    /\ \E x \in Exchange([m |-> "HEALTH"]) :
         /\ lastResp' = Response(x.status, x.body)
         /\ IF x.status = 0 THEN Finish("Failed", "RequestError")
            ELSE AssertThat(x.status = 200)
    /\ UNCHANGED <<sysVars, waitVars, todo, resetLog, action, test, appVars, loadVars, histVars>>
    /\ UNCHANGED <<dpc, user_id, target_container, recovered, analysis>>

\* response = await async_client.get(f"/users/{user_id}"); assert 200 and email
StepGetUser ==
    /\ Ready /\ step.op = "get_user"
    /\ \E x \in Exchange([m |-> "GET", id |-> user_id]) :
         /\ lastResp' = Response(x.status, x.body)
         /\ IF x.status = 0 THEN Finish("Failed", "RequestError")
            ELSE AssertThat(x.status = 200 /\ \A u \in x.body : u.email = step.email)
    /\ UNCHANGED <<sysVars, waitVars, todo, resetLog, action, test, appVars, loadVars, histVars>>
    /\ UNCHANGED <<dpc, user_id, target_container, recovered, analysis>>

\* response = await async_client.get("/users/"); assert 200, then the length
StepList ==
    /\ Ready /\ step.op = "list"
    /\ \E x \in Exchange([m |-> "LIST"]) :
         /\ lastResp' = Response(x.status, x.body)
         /\ IF x.status = 0 THEN Finish("Failed", "RequestError")
            ELSE AssertThat(/\ x.status = 200
                            /\ IF step.n < 0 THEN Cardinality(x.body) > 0
                               ELSE Cardinality(x.body) = step.n
                            /\ \/ step.first_email = NoEmail
                               \/ \A u \in x.body : u.email = step.first_email)
    /\ UNCHANGED <<sysVars, waitVars, todo, resetLog, action, test, appVars, loadVars, histVars>>
    /\ UNCHANGED <<dpc, user_id, target_container, recovered, analysis>>

\* await asyncio.sleep(...)
StepSleep ==
    /\ Ready /\ step.op = "sleep"
    /\ Continue
    /\ UNCHANGED <<sysVars, waitVars, todo, resetLog, action, test, appVars, loadVars, histVars, localVars>>

\* docker_control[cmd](target, wait_time=...): the call
StepDockerCall ==
    /\ Ready /\ step.op = "docker"
    /\ DockerCall(step.cmd,
                  IF step.target = "target_container" THEN target_container ELSE step.target,
                  step.wait_time)
    /\ UNCHANGED <<sysVars, waitVars, resetVars, runVars, appVars, localVars, histVars, loadVars>>

\* ... and its return: the bool is asserted only where the test says assert
StepDockerReturn ==
    /\ phase = "body" /\ step.op = "docker"
    /\ action.caller = "blocked"
    /\ DockerReturned
    /\ action' = IF action.stage \in {"done", "raised"} THEN NoAction
                 ELSE [action EXCEPT !.caller = "gone"]
    /\ IF action.stage = "raised" THEN Finish("Failed", "OSError")
       ELSE AssertThat(step.check => action.ok)
    /\ UNCHANGED <<sysVars, waitVars, todo, resetLog, test, appVars, localVars, histVars, loadVars>>

\* recovered = await wait_for_health(max_attempts=...): the call
StepWaitCall ==
    /\ Ready /\ step.op = "wait_for_health"
    /\ WaitEnter(step.max_attempts)
    /\ UNCHANGED <<sysVars, harnessVars, loadVars>>

\* ... and its return
StepWaitReturn ==
    /\ phase = "body" /\ step.op = "wait_for_health"
    /\ wpc = "done"
    /\ wpc' = "idle"
    /\ recovered' = waitResult
    /\ Continue
    /\ UNCHANGED <<sysVars, max_attempts, attempt, probeLog, warnLog, infoLog, errorLog, waitResult>>
    /\ UNCHANGED <<todo, resetLog, action, test, appVars, loadVars, histVars>>
    /\ UNCHANGED <<dpc, user_id, target_container, lastResp, analysis>>

\* mutant of StepAssertRecovered: the assertion is not made
StepAssertRecoveredDropped ==
    /\ Ready /\ step.op = "assert_recovered"
    /\ Continue
    /\ UNCHANGED <<sysVars, waitVars, todo, resetLog, action, test, appVars, loadVars, histVars, localVars>>

\* assert recovered is True
StepAssertRecovered ==
    /\ Ready /\ step.op = "assert_recovered"
    /\ AssertThat(recovered = "true")
    /\ UNCHANGED <<sysVars, waitVars, todo, resetLog, action, test, appVars, loadVars, histVars, localVars>>

(***************************************************************************)
(* The statements only test_load_with_random_container_failure has.        *)
(***************************************************************************)
\* locust_process = subprocess.Popen([...]): the process is spawned, or the
\* executable cannot be run (OSError)
StepPopen ==
    /\ Ready /\ step.op = "popen"
    /\ \/ /\ locust' = "starting"
          /\ stats' = NoStats
          /\ Continue
       \/ /\ UNCHANGED <<locust, stats>>
          /\ Finish("Failed", "OSError")
    /\ UNCHANGED <<csv, sysVars, waitVars, todo, resetLog, action, test, appVars, localVars, histVars>>

\* target_container = random.choice([FASTAPI_CONTAINER, POSTGRES_CONTAINER])
StepChoice ==
    /\ Ready /\ step.op = "choice"
    /\ target_container' \in Targets
    /\ Continue
    /\ UNCHANGED <<sysVars, waitVars, todo, resetLog, action, test, appVars, loadVars, histVars>>
    /\ UNCHANGED <<dpc, user_id, recovered, lastResp, analysis>>

\* try: locust_process.wait(timeout=120)
\* except subprocess.TimeoutExpired: locust_process.terminate()
StepDrain ==
    /\ Ready /\ step.op = "drain"
    /\ \/ /\ locust = "exited"
          /\ Continue
          /\ UNCHANGED <<locust, dpc>>
       \/ /\ locust \in {"starting", "running"}
          /\ locust' = "terminating"
          /\ dpc' = "wait10"
          /\ UNCHANGED <<verdict, reason, phase, rpc, pc>>
    /\ UNCHANGED <<stats, csv, sysVars, waitVars, todo, resetLog, action, test, appVars, histVars>>
    /\ UNCHANGED <<user_id, target_container, recovered, lastResp, analysis>>

\* mutant of StepDrainTerminated: locust_process.wait() without a timeout
StepDrainTerminatedNoTimeout ==
    /\ phase = "body" /\ dpc = "wait10"
    /\ dpc' = "idle"
    /\ locust = "exited" /\ Continue
    /\ UNCHANGED <<sysVars, waitVars, todo, resetLog, action, test, appVars, loadVars, histVars>>
    /\ UNCHANGED <<user_id, target_container, recovered, lastResp, analysis>>

\* locust_process.wait(timeout=10) in the except branch: a second
\* TimeoutExpired leaves the body
StepDrainTerminated ==
    /\ phase = "body" /\ dpc = "wait10"
    /\ dpc' = "idle"
    /\ \/ locust = "exited" /\ Continue
       \/ locust = "terminating" /\ Finish("Failed", "TimeoutExpired")
    /\ UNCHANGED <<sysVars, waitVars, todo, resetLog, action, test, appVars, loadVars, histVars>>
    /\ UNCHANGED <<user_id, target_container, recovered, lastResp, analysis>>

\* a percentage as the fraction num/den; fault: the division raised
Percent(num, den) == [num |-> num, den |-> den, fault |-> FALSE]
DivisionFault == [num |-> 0, den |-> 1, fault |-> TRUE]

NotEvaluated ==
    [evaluated |-> FALSE, total_requests |-> 0, failed_requests |-> 0,
     error_rate |-> Percent(0, 1), raised |-> "none"]

\* mutant of ErrorRate: the division is not guarded
ErrorRateUnguarded(total_requests, failed_requests) ==
    IF total_requests = 0 THEN DivisionFault
    ELSE Percent(failed_requests * 100, total_requests)

\* error_rate = (failed_requests / total_requests * 100) if total_requests > 0 else 0
ErrorRate(total_requests, failed_requests) ==
    IF total_requests > 0
    THEN Percent(failed_requests * 100, total_requests)
    ELSE Percent(0, 1)

\* assert error_rate < 30
ErrorRateBelow(total_requests, failed_requests, threshold) ==
    LET error_rate == ErrorRate(total_requests, failed_requests)
    IN error_rate.num < threshold * error_rate.den

\* Step 5, inside `with open(csv_file)`: what is computed from the lines read
\* and the exception that leaves the inner try, if any
ReadStats(lines) ==
    IF Len(lines) < 2 THEN NotEvaluated
    ELSE LET stats_line == lines[2]
         IN IF Len(stats_line) < 4 THEN NotEvaluated
            ELSE IF ~IsInt(stats_line[3]) \/ ~IsInt(stats_line[4])
                 THEN NotEvaluated    \* ValueError, caught by the inner except
                 ELSE LET total_requests == ParseInt(stats_line[3])
                          failed_requests == ParseInt(stats_line[4])
                          error_rate == ErrorRate(total_requests, failed_requests)
                      IN [evaluated |-> TRUE,
                          total_requests |-> total_requests,
                          failed_requests |-> failed_requests,
                          error_rate |-> error_rate,
                          raised |-> IF error_rate.fault THEN "ZeroDivisionError"
                                     ELSE IF ErrorRateBelow(total_requests, failed_requests,
                                                            ErrorRateThreshold)
                                     THEN "none" ELSE "AssertionError"]

\* `except Exception as e: logger.warning(...)` around Step 5: the classes it catches
CaughtByExceptException ==
    {"ValueError", "IndexError", "OSError", "AssertionError", "ZeroDivisionError"}

\* Step 5: skip when the file is missing; otherwise read it, and go on to
\* Step 6 unless an exception leaves the outer try
StepAnalyze ==
    /\ Ready /\ step.op = "analyze"
    /\ IF ~csv.exists
       THEN /\ Finish("Skipped", "Locust stats file not generated")
            /\ UNCHANGED analysis
       ELSE /\ analysis' = ReadStats(csv.lines)
            /\ IF analysis'.raised = "none" \/ analysis'.raised \in CaughtByExceptException
               THEN Continue
               ELSE Finish("Failed", analysis'.raised)
    /\ UNCHANGED <<sysVars, waitVars, todo, resetLog, action, test, appVars, loadVars, histVars>>
    /\ UNCHANGED <<dpc, user_id, target_container, recovered, lastResp>>

(***************************************************************************)
(* The connection pool (app/database.py) under concurrent create requests: *)
(* each handler runs in its own thread and checks a connection out for     *)
(* db.commit() and again for db.refresh().                                 *)
(***************************************************************************)
Creates == 1..NumCreates
NoRequests == [i \in Creates |-> "idle"]

\* mutant of PoolCapacity: max_overflow = 0
PoolCapacityNoOverflow == PoolSize

\* QueuePool hands out at most pool_size + max_overflow connections
PoolCapacity == PoolSize + MaxOverflow

\* connections checked out
CheckedOut == Cardinality({i \in Creates : pool[i] \in {"in_commit", "in_refresh"}})

\* a handler that needs a connection, and what it becomes once it has one
PoolNeeds(i) == pool[i] \in {"commit", "refresh"}
PoolGranted(i) == IF pool[i] = "commit" THEN "in_commit" ELSE "in_refresh"

\* checkout: there is a pooled or overflow connection left
PoolCheckout(i) ==
    /\ PoolNeeds(i)
    /\ CheckedOut < PoolCapacity
    /\ pool' = [pool EXCEPT ![i] = PoolGranted(i)]
    /\ UNCHANGED <<sysVars, waitVars, resetVars, action, runVars, localVars, histVars, loadVars, calls, overBudget, metricsVars, concVars>>

\* checkout with the pool exhausted: after pool_timeout the pool raises
\* TimeoutError, an SQLAlchemyError that get_db rolls back and re-raises (500)
PoolTimeout(i) ==
    /\ PoolNeeds(i)
    /\ CheckedOut >= PoolCapacity
    /\ pool' = [pool EXCEPT ![i] = "done500"]
    /\ UNCHANGED <<sysVars, waitVars, resetVars, action, runVars, localVars, histVars, loadVars, calls, overBudget, metricsVars, concVars>>

\* db.add(db_user); db.commit(): the transaction ends and the connection
\* goes back to the pool (after db.rollback() as well)
PoolCommit(i) ==
    /\ pool[i] = "in_commit"
    /\ LET h == create_user(Email("user", i - 1))
       IN /\ users' = h.users
          /\ nextId' = h.nextId
          /\ acked' = IF h.status = 201 THEN acked \cup h.body ELSE acked
          /\ pool' = [pool EXCEPT ![i] =
                        CASE h.status = 201 -> "refresh"
                          [] h.status = 400 -> "done400"
                          [] OTHER -> "done500"]
    /\ UNCHANGED <<container, waitVars, resetVars, action, runVars, localVars, startUsers, loadVars, calls, overBudget, metricsVars, concVars>>

\* db.refresh(db_user); return db_user; then get_db's finally: db.close()
PoolRespond(i) ==
    /\ pool[i] = "in_refresh"
    /\ pool' = [pool EXCEPT ![i] = "done201"]
    /\ UNCHANGED <<sysVars, waitVars, resetVars, action, runVars, localVars, histVars, loadVars, calls, overBudget, metricsVars, concVars>>

\* assert successful_creations >= 5: half of the creates
MinSuccessful == (NumCreates + 1) \div 2

\* sum(1 for status in results if status == 201)
successful_creations == Cardinality({i \in Creates : pool[i] = "done201"})

\* tasks = [create_user(i) for i in range(10)]: every request is sent
StepGatherCall ==
    /\ Ready /\ step.op = "gather"
    /\ pool = NoRequests
    /\ calls = NoCalls
    /\ overBudget = FALSE
    /\ app_requests_total = 0
    /\ app_requests_failed = 0
    /\ recording = NotRecording
    /\ pool' = [i \in Creates |-> "commit"]
    /\ UNCHANGED <<sysVars, waitVars, resetVars, action, runVars, localVars, histVars, loadVars, calls, overBudget, metricsVars, concVars>>

\* results = await asyncio.gather(*tasks); assert successful_creations >= 5
StepGatherReturn ==
    /\ Ready /\ step.op = "gather"
    /\ \A i \in Creates : pool[i] \in {"done201", "done400", "done500"}
    /\ AssertThat(successful_creations >= MinSuccessful)
    /\ UNCHANGED <<sysVars, waitVars, todo, resetLog, action, test, appVars, localVars, histVars, loadVars>>

(***************************************************************************)
(* The simulated users of the load generator (locust_tests/locustfile.py)  *)
(* as greenlets whose requests overlap.  LocustRequest above is the case   *)
(* in which a request completes before any other user builds its payload.  *)
(***************************************************************************)
\* the simulated users of one load run (greenlets of the locust process)
LoadUsers == 1..NumLoadUsers
NoGreenlets == [u \in LoadUsers |-> [pc |-> "idle", email |-> NoEmail]]

\* APIUser.create_user up to self.client.post(...): the payload is built
\* from environment.stats.num_requests, the count of the requests that have
\* completed so far; the greenlet then waits for the response while the
\* other users run
GreenletBuild(u) ==
    /\ locust = "running"
    /\ greenlets[u].pc = "idle"
    /\ num_requests + Cardinality({v \in LoadUsers : greenlets[v].pc = "posting"}) < MaxLoad
    /\ greenlets' = [greenlets EXCEPT ![u] = [pc |-> "posting", email |-> LoadEmail]]
    /\ UNCHANGED <<sysVars, waitVars, resetVars, action, runVars, localVars, histVars, loadVars>>
    /\ UNCHANGED <<pool, calls, overBudget, metricsVars, handlers, pooled>>

\* the response arrives: the request is counted, and as a failure unless
\* its status is 201
GreenletPost(u) ==
    /\ locust = "running"
    /\ greenlets[u].pc = "posting"
    /\ \E x \in Exchange([m |-> "POST", email |-> greenlets[u].email]) :
         /\ users' = x.users
         /\ nextId' = x.nextId
         /\ stats' = [stats EXCEPT !["create_user"] =
                        [n |-> @.n + 1,
                         f |-> IF x.status = TaskExpects("create_user") THEN @.f ELSE @.f + 1]]
         /\ greenlets' = [greenlets EXCEPT ![u] = [pc |-> "idle", email |-> @.email]]
    /\ UNCHANGED <<container, locust, csv, waitVars, resetVars, action, runVars, localVars, histVars>>
    /\ UNCHANGED <<pool, calls, overBudget, metricsVars, handlers, pooled>>

(***************************************************************************)
(* A request through get_db (app/database.py) and its endpoint             *)
(* (app/main.py), one handler thread per request: the session is opened,   *)
(* the first statement checks a connection out of the engine's pool, the   *)
(* endpoint runs, an exception passes through get_db's except clauses, and *)
(* the finally clause closes the session.                                  *)
(***************************************************************************)
Handlers == 1..NumHandlers

NoHandler ==
    [pc |-> "idle", req |-> [m |-> "none", email |-> NoEmail, id |-> 0],
     session |-> "none", conn |-> "none", exc |-> "none", status |-> 0,
     rolled_back |-> FALSE, saw_down |-> FALSE, reconnected |-> FALSE]
NoHandlers == [h \in Handlers |-> NoHandler]

\* no idle connection yet, no connection held by other requests
NoPool == [idle |-> "none", others |-> 0]

\* the requests the handlers serve
HandlerRequests ==
    {[m |-> "HEALTH", email |-> NoEmail, id |-> 0],
     [m |-> "GET", email |-> NoEmail, id |-> 1]}
    \cup {[m |-> "POST", email |-> Email("user", i), id |-> 0] : i \in 1..2}

\* mutant of pool_pre_ping: create_engine(pool_pre_ping=False)
pool_pre_ping_off == FALSE

\* create_engine(pool_pre_ping=True): a pooled connection is tested at
\* checkout and replaced when the server it was opened to is gone
pool_pre_ping == TRUE

\* connections checked out of the pool
HeldConnections ==
    Cardinality({h \in Handlers : handlers[h].conn # "none"}) + pooled.others

\* the request arrives: db = SessionLocal(); yield db
HandlerArrive(h, req) ==
    /\ handlers[h].pc = "idle"
    /\ ApiServes
    /\ handlers' = [handlers EXCEPT ![h] =
                      [NoHandler EXCEPT !.pc = "checkout", !.req = req, !.session = "open"]]
    /\ UNCHANGED <<sysVars, waitVars, resetVars, action, runVars, localVars, histVars, loadVars>>
    /\ UNCHANGED <<pool, calls, overBudget, metricsVars, pooled, greenlets>>

\* the first statement of the endpoint needs a connection: the pool raises
\* TimeoutError when it is exhausted, connecting raises OperationalError
\* when the database is down, an idle connection to a server that is gone
\* is handed out as it is unless pre-ping replaces it
HandlerCheckout(h) ==
    /\ handlers[h].pc = "checkout"
    /\ IF HeldConnections >= PoolCapacity
       THEN /\ handlers' = [handlers EXCEPT ![h].pc = "except", ![h].exc = "SQLAlchemyError"]
            /\ UNCHANGED pooled
       ELSE IF ~DbReachable
       THEN /\ handlers' = [handlers EXCEPT ![h].pc = "except", ![h].exc = "OperationalError",
                                            ![h].saw_down = TRUE]
            /\ pooled' = [pooled EXCEPT !.idle = IF pool_pre_ping THEN "none" ELSE @]
       ELSE IF pooled.idle = "stale" /\ ~pool_pre_ping
       THEN /\ handlers' = [handlers EXCEPT ![h].pc = "query", ![h].conn = "dead"]
            /\ pooled' = [pooled EXCEPT !.idle = "none"]
       ELSE /\ handlers' = [handlers EXCEPT ![h].pc = "query", ![h].conn = "live",
                                            ![h].reconnected = (pooled.idle = "stale")]
            /\ pooled' = [pooled EXCEPT !.idle = "none"]
    /\ UNCHANGED <<sysVars, waitVars, resetVars, action, runVars, localVars, histVars, loadVars>>
    /\ UNCHANGED <<pool, calls, overBudget, metricsVars, greenlets>>

\* the exception that leaves the endpoint for an answer of the handler: a
\* 4xx is an HTTPException (create_user has caught the IntegrityError and
\* rolled back), a lost database an OperationalError
EndpointRaises(status) ==
    IF status >= 500 THEN "OperationalError"
    ELSE IF status >= 400 THEN "HTTPException"
    ELSE "none"

\* the endpoint runs its statements on the connection
HandlerQuery(h) ==
    /\ handlers[h].pc = "query"
    /\ LET x == IF handlers[h].conn = "dead" THEN DbDown ELSE Route(handlers[h].req)
           exc == EndpointRaises(x.status)
       IN /\ users' = x.users
          /\ nextId' = x.nextId
          /\ handlers' = [handlers EXCEPT
                            ![h].pc = IF exc = "OperationalError" THEN "except" ELSE "finally",
                            ![h].exc = exc,
                            ![h].status = x.status,
                            ![h].rolled_back = (x.status = 400 /\ handlers[h].req.m = "POST"),
                            ![h].conn = IF exc = "OperationalError" THEN "dead" ELSE @]
    /\ UNCHANGED <<container, waitVars, resetVars, action, runVars, localVars, histVars, loadVars>>
    /\ UNCHANGED <<pool, calls, overBudget, metricsVars, pooled, greenlets>>

\* what get_db's except clauses do with the exception thrown into it:
\* OperationalError: rollback, engine.dispose(), raise; any other
\* SQLAlchemyError: rollback, raise; anything else passes through
get_db_except(exc) ==
    [rollback |-> exc \in {"OperationalError", "SQLAlchemyError"},
     dispose |-> exc = "OperationalError"]

HandlerExcept(h) ==
    /\ handlers[h].pc = "except"
    /\ handlers' = [handlers EXCEPT ![h].pc = "finally", ![h].status = 500,
                                    ![h].rolled_back = get_db_except(handlers[h].exc).rollback]
    /\ pooled' = [pooled EXCEPT !.idle = IF get_db_except(handlers[h].exc).dispose
                                         THEN "none" ELSE @]
    /\ UNCHANGED <<sysVars, waitVars, resetVars, action, runVars, localVars, histVars, loadVars>>
    /\ UNCHANGED <<pool, calls, overBudget, metricsVars, greenlets>>

\* mutant of SessionAfter: db.close() at the end of the try block
SessionAfterTryOnly(exc) == IF exc = "none" THEN "closed" ELSE "open"

\* finally: db.close(), whatever left the try block
SessionAfter(exc) == "closed"

\* get_db is left: the session is closed and gives its connection back; the
\* response goes out
HandlerFinally(h) ==
    /\ handlers[h].pc = "finally"
    /\ LET after == SessionAfter(handlers[h].exc)
       IN /\ handlers' = [handlers EXCEPT ![h].pc = "done", ![h].session = after,
                                          ![h].conn = IF after = "closed" THEN "none" ELSE @]
          /\ pooled' = [pooled EXCEPT !.idle = IF after = "closed" /\ handlers[h].conn = "live"
                                               THEN "live" ELSE @]
    /\ UNCHANGED <<sysVars, waitVars, resetVars, action, runVars, localVars, histVars, loadVars>>
    /\ UNCHANGED <<pool, calls, overBudget, metricsVars, greenlets>>

\* docker stop | start | restart recovery_postgres carried out while the API
\* keeps running: every connection opened to the old server is dead
DbLifecycle(cmd) ==
    /\ container' = Lifecycle(cmd, POSTGRES_CONTAINER)
    /\ container' # container
    /\ pooled' = [pooled EXCEPT !.idle = IF @ = "live" THEN "stale" ELSE @]
    /\ handlers' = [h \in Handlers |->
                      IF handlers[h].pc \in {"query", "except", "finally"}
                      THEN [handlers[h] EXCEPT !.saw_down = TRUE,
                                               !.conn = IF @ = "live" THEN "dead" ELSE @]
                      ELSE handlers[h]]
    /\ UNCHANGED <<users, nextId, waitVars, resetVars, action, runVars, localVars, histVars, loadVars>>
    /\ UNCHANGED <<pool, calls, overBudget, metricsVars, greenlets>>

(***************************************************************************)
(* One pytest run of one scenario, from the setup of its fixtures.         *)
(***************************************************************************)
\* what an earlier scenario may have left in the table
Leftovers == {{}, {[id |-> 1, email |-> Email("user", 1)]}}

\* what an earlier run may have left as reports/chaos_load_stats.csv
InitialReports ==
    {NoReport,
     Report("old", CsvOf([NoStats EXCEPT !["create_user"] = [n |-> 2, f |-> 0]]))}

Init ==
    /\ test \in Tests
    /\ container \in {[t \in Targets |-> "running"],
                      [t \in Targets |-> IF t = POSTGRES_CONTAINER THEN "stopped" ELSE "running"]}
    /\ users \in Leftovers
    /\ nextId = Cardinality(users) + 1
    /\ wpc = "idle"
    /\ max_attempts = 0
    /\ attempt = 1
    /\ probeLog = <<>>
    /\ warnLog = <<>>
    /\ infoLog = <<>>
    /\ errorLog = <<>>
    /\ waitResult = "none"
    /\ rpc = "get"
    /\ todo = {}
    /\ resetLog = <<>>
    /\ action = NoAction
    /\ locust = "none"
    /\ stats = NoStats
    /\ csv \in IF LoadChaos THEN InitialReports ELSE {NoReport}
    /\ phase = "setup"
    /\ verdict = "none"
    /\ reason = ""
    /\ pc = 1
    /\ dpc = "idle"
    /\ user_id = 0
    /\ target_container = "none"
    /\ recovered = "none"
    /\ lastResp = NoResponse
    /\ analysis = NotEvaluated
    /\ startUsers = {}
    /\ acked = {}
    /\ pool = NoRequests
    /\ calls = NoCalls
    /\ overBudget = FALSE
    /\ app_requests_total = 0
    /\ app_requests_failed = 0
    /\ recording = NotRecording
    /\ handlers = NoHandlers
    /\ pooled = NoPool
    /\ greenlets = NoGreenlets

Next ==
    \/ ResetList
    \/ ResetDelete
    \/ StepPost
    \/ StepHealth
    \/ StepGetUser
    \/ StepList
    \/ StepSleep
    \/ StepDockerCall
    \/ DockerExec
    \/ DockerSettle
    \/ StepDockerReturn
    \/ StepWaitCall
    \/ WaitProbe
    \/ WaitSleep
    \/ WaitExhausted
    \/ StepWaitReturn
    \/ StepAssertRecovered
    \/ StepPopen
    \/ StepChoice
    \/ StepDrain
    \/ StepDrainTerminated
    \/ StepAnalyze
    \/ LocustStart
    \/ LocustAbort
    \/ \E k \in KindSet : LocustRequest(k)
    \/ LocustExit
    \/ \E t \in Targets : Boot(t)

Spec == Init /\ [][Next]_vars

\* the harness and the docker commands it waits for; the containers' boot
\* and the locust process go at their own pace
HarnessNext ==
    \/ ResetList
    \/ ResetDelete
    \/ StepPost
    \/ StepHealth
    \/ StepGetUser
    \/ StepList
    \/ StepSleep
    \/ StepDockerCall
    \/ DockerExec
    \/ DockerSettle
    \/ StepDockerReturn
    \/ StepWaitCall
    \/ WaitProbe
    \/ WaitSleep
    \/ WaitExhausted
    \/ StepWaitReturn
    \/ StepAssertRecovered
    \/ StepPopen
    \/ StepChoice
    \/ StepDrain
    \/ StepDrainTerminated
    \/ StepAnalyze

\* every statement of the harness, every request (bounded by its timeout)
\* and every docker command comes to an end
FairSpec == Spec /\ WF_vars(HarnessNext)

(***************************************************************************)
(* The load-plus-chaos scenario against the wall clock.                    *)
(***************************************************************************)
\* time passes the global budget of the scenario while its body runs: the
\* test function has no timeout of its own and nothing watches the clock
BudgetExceeded ==
    /\ LoadChaos /\ phase = "body"
    /\ ~overBudget
    /\ overBudget' = TRUE
    /\ UNCHANGED <<sysVars, waitVars, resetVars, action, runVars, localVars, histVars, loadVars, pool, calls, metricsVars, concVars>>

NextBudget == Next \/ BudgetExceeded

SpecBudget == Init /\ [][NextBudget]_vars

(***************************************************************************)
(* wait_for_health on its own: every max_attempts up to the bound, against *)
(* every state of the two containers.                                      *)
(***************************************************************************)
InitWait ==
    /\ container \in [Targets -> {"stopped", "booting", "running"}]
    /\ users = {}
    /\ nextId = 1
    /\ wpc = "probe"
    /\ max_attempts \in 0..MaxAttempts
    /\ attempt = 1
    /\ probeLog = <<>>
    /\ warnLog = <<>>
    /\ infoLog = <<>>
    /\ errorLog = <<>>
    /\ waitResult = "none"
    /\ rpc = "idle"
    /\ todo = {}
    /\ resetLog = <<>>
    /\ action = NoAction
    /\ locust = "none"
    /\ stats = NoStats
    /\ csv = NoReport
    /\ test = "none"
    /\ phase = "none"
    /\ verdict = "none"
    /\ reason = ""
    /\ pc = 1
    /\ dpc = "idle"
    /\ user_id = 0
    /\ target_container = "none"
    /\ recovered = "none"
    /\ lastResp = NoResponse
    /\ analysis = NotEvaluated
    /\ startUsers = {}
    /\ acked = {}
    /\ pool = NoRequests
    /\ calls = NoCalls
    /\ overBudget = FALSE
    /\ app_requests_total = 0
    /\ app_requests_failed = 0
    /\ recording = NotRecording
    /\ handlers = NoHandlers
    /\ pooled = NoPool
    /\ greenlets = NoGreenlets

NextWait ==
    \/ WaitProbe
    \/ WaitSleep
    \/ WaitExhausted
    \/ \E t \in Targets : Boot(t)

SpecWait == InitWait /\ [][NextWait]_vars


(***************************************************************************)
(* Two resets in a row: the teardown of one scenario and the setup of the   *)
(* next (clean_database is function-scoped), with nothing else writing.     *)
(***************************************************************************)
\* the users an earlier scenario created
StoredUsers == {[id |-> i, email |-> Email("user", i)] : i \in 1..NumUsers}

\* pytest goes on to the next test: its clean_database setup runs the reset
NextScenario ==
    /\ phase = "finished"
    /\ phase' = "setup"
    /\ rpc' = "get"
    /\ verdict' = "none"
    /\ reason' = ""
    /\ pc' = 1
    /\ UNCHANGED <<sysVars, waitVars, todo, resetLog, action, test, appVars, localVars, histVars, loadVars>>

InitReset ==
    /\ container \in [Targets -> {"stopped", "booting", "running"}]
    /\ users \in SUBSET StoredUsers
    /\ nextId = NumUsers + 1
    /\ wpc = "idle"
    /\ max_attempts = 0
    /\ attempt = 1
    /\ probeLog = <<>>
    /\ warnLog = <<>>
    /\ infoLog = <<>>
    /\ errorLog = <<>>
    /\ waitResult = "none"
    /\ rpc = "get"
    /\ todo = {}
    /\ resetLog = <<>>
    /\ action = NoAction
    /\ locust = "none"
    /\ stats = NoStats
    /\ csv = NoReport
    /\ test = "none"
    /\ phase = "teardown"
    /\ verdict \in {"Passed", "Failed"}
    /\ reason = ""
    /\ pc = 1
    /\ dpc = "idle"
    /\ user_id = 0
    /\ target_container = "none"
    /\ recovered = "none"
    /\ lastResp = NoResponse
    /\ analysis = NotEvaluated
    /\ startUsers = {}
    /\ acked = users
    /\ pool = NoRequests
    /\ calls = NoCalls
    /\ overBudget = FALSE
    /\ app_requests_total = 0
    /\ app_requests_failed = 0
    /\ recording = NotRecording
    /\ handlers = NoHandlers
    /\ pooled = NoPool
    /\ greenlets = NoGreenlets

NextReset ==
    \/ ResetList
    \/ ResetDelete
    \/ NextScenario
    \/ \E t \in Targets : Boot(t)

SpecReset == InitReset /\ [][NextReset]_vars

(***************************************************************************)
(* test_connection_pool_exhaustion_handling on its own: a healthy service, *)
(* an empty table, NumCreates concurrent creates with distinct emails.      *)
(***************************************************************************)
InitPool ==
    /\ container = [t \in Targets |-> "running"]
    /\ users = {}
    /\ nextId = 1
    /\ wpc = "idle"
    /\ max_attempts = 0
    /\ attempt = 1
    /\ probeLog = <<>>
    /\ warnLog = <<>>
    /\ infoLog = <<>>
    /\ errorLog = <<>>
    /\ waitResult = "none"
    /\ rpc = "idle"
    /\ todo = {}
    /\ resetLog = <<>>
    /\ action = NoAction
    /\ locust = "none"
    /\ stats = NoStats
    /\ csv = NoReport
    /\ test = "test_connection_pool_exhaustion_handling"
    /\ phase = "body"
    /\ verdict = "none"
    /\ reason = ""
    /\ pc = 1
    /\ dpc = "idle"
    /\ user_id = 0
    /\ target_container = "none"
    /\ recovered = "none"
    /\ lastResp = NoResponse
    /\ analysis = NotEvaluated
    /\ startUsers = {}
    /\ acked = {}
    /\ pool = NoRequests
    /\ calls = NoCalls
    /\ overBudget = FALSE
    /\ app_requests_total = 0
    /\ app_requests_failed = 0
    /\ recording = NotRecording
    /\ handlers = NoHandlers
    /\ pooled = NoPool
    /\ greenlets = NoGreenlets

NextPool ==
    \/ StepGatherCall
    \/ \E i \in Creates : PoolCheckout(i)
    \/ \E i \in Creates : PoolTimeout(i)
    \/ \E i \in Creates : PoolCommit(i)
    \/ \E i \in Creates : PoolRespond(i)
    \/ StepGatherReturn

SpecPool == InitPool /\ [][NextPool]_vars

(***************************************************************************)
(* The docker helpers called by NumCallers harness runs at once (two       *)
(* pytest processes or workers on one docker host): the container names    *)
(* are fixed, so every run drives the same two containers.                 *)
(***************************************************************************)
InitLifecycle ==
    /\ container = [t \in Targets |-> "running"]
    /\ users = {}
    /\ nextId = 1
    /\ wpc = "idle"
    /\ max_attempts = 0
    /\ attempt = 1
    /\ probeLog = <<>>
    /\ warnLog = <<>>
    /\ infoLog = <<>>
    /\ errorLog = <<>>
    /\ waitResult = "none"
    /\ rpc = "idle"
    /\ todo = {}
    /\ resetLog = <<>>
    /\ action = NoAction
    /\ locust = "none"
    /\ stats = NoStats
    /\ csv = NoReport
    /\ test = "none"
    /\ phase = "none"
    /\ verdict = "none"
    /\ reason = ""
    /\ pc = 1
    /\ dpc = "idle"
    /\ user_id = 0
    /\ target_container = "none"
    /\ recovered = "none"
    /\ lastResp = NoResponse
    /\ analysis = NotEvaluated
    /\ startUsers = {}
    /\ acked = {}
    /\ pool = NoRequests
    /\ calls = NoCalls
    /\ overBudget = FALSE
    /\ app_requests_total = 0
    /\ app_requests_failed = 0
    /\ recording = NotRecording
    /\ handlers = NoHandlers
    /\ pooled = NoPool
    /\ greenlets = NoGreenlets

NextLifecycle ==
    \/ \E w \in Callers, cmd \in Commands, t \in Targets : CallerCall(w, cmd, t)
    \/ \E w \in Callers : CallerExec(w)
    \/ \E w \in Callers : CallerSettle(w)
    \/ \E w \in Callers : CallerReturn(w)
    \/ \E t \in Targets : Boot(t)

SpecLifecycle == InitLifecycle /\ [][NextLifecycle]_vars

(***************************************************************************)
(* NumRecords concurrent calls of record_request on the process-wide       *)
(* counters.                                                               *)
(***************************************************************************)
InitMetrics == InitLifecycle

NextMetrics ==
    \/ \E r \in Recorders, success \in BOOLEAN : RecordCall(r, success)
    \/ \E r \in Recorders : RecordReadTotal(r)
    \/ \E r \in Recorders : RecordWriteTotal(r)
    \/ \E r \in Recorders : RecordReadFailed(r)
    \/ \E r \in Recorders : RecordWriteFailed(r)

SpecMetrics == InitMetrics /\ [][NextMetrics]_vars

(***************************************************************************)
(* NumHandlers requests handled at the same time by an API that is never   *)
(* restarted, while the database container is stopped, started and         *)
(* restarted; the rest of the pool is free or held by other requests.      *)
(***************************************************************************)
InitHandlers ==
    /\ container = [t \in Targets |-> "running"]
    /\ users = {}
    /\ nextId = 1
    /\ wpc = "idle"
    /\ max_attempts = 0
    /\ attempt = 1
    /\ probeLog = <<>>
    /\ warnLog = <<>>
    /\ infoLog = <<>>
    /\ errorLog = <<>>
    /\ waitResult = "none"
    /\ rpc = "idle"
    /\ todo = {}
    /\ resetLog = <<>>
    /\ action = NoAction
    /\ locust = "none"
    /\ stats = NoStats
    /\ csv = NoReport
    /\ test = "none"
    /\ phase = "none"
    /\ verdict = "none"
    /\ reason = ""
    /\ pc = 1
    /\ dpc = "idle"
    /\ user_id = 0
    /\ target_container = "none"
    /\ recovered = "none"
    /\ lastResp = NoResponse
    /\ analysis = NotEvaluated
    /\ startUsers = {}
    /\ acked = {}
    /\ pool = NoRequests
    /\ calls = NoCalls
    /\ overBudget = FALSE
    /\ app_requests_total = 0
    /\ app_requests_failed = 0
    /\ recording = NotRecording
    /\ handlers = NoHandlers
    /\ pooled \in {NoPool, [NoPool EXCEPT !.others = PoolCapacity - 1]}
    /\ greenlets = NoGreenlets

NextHandlers ==
    \/ \E h \in Handlers, req \in HandlerRequests : HandlerArrive(h, req)
    \/ \E h \in Handlers : HandlerCheckout(h)
    \/ \E h \in Handlers : HandlerQuery(h)
    \/ \E h \in Handlers : HandlerExcept(h)
    \/ \E h \in Handlers : HandlerFinally(h)
    \/ \E cmd \in Commands : DbLifecycle(cmd)
    \/ Boot(POSTGRES_CONTAINER)

SpecHandlers == InitHandlers /\ [][NextHandlers]_vars

(***************************************************************************)
(* The load run while the body sleeps: NumLoadUsers simulated users whose  *)
(* requests overlap, against a healthy service and an empty table.         *)
(***************************************************************************)
InitLoad ==
    /\ container = [t \in Targets |-> "running"]
    /\ users = {}
    /\ nextId = 1
    /\ wpc = "idle"
    /\ max_attempts = 0
    /\ attempt = 1
    /\ probeLog = <<>>
    /\ warnLog = <<>>
    /\ infoLog = <<>>
    /\ errorLog = <<>>
    /\ waitResult = "none"
    /\ rpc = "idle"
    /\ todo = {}
    /\ resetLog = <<>>
    /\ action = NoAction
    /\ locust = "running"
    /\ stats = NoStats
    /\ csv = Report("cur", <<>>)
    /\ test = "test_load_with_random_container_failure"
    /\ phase = "body"
    /\ verdict = "none"
    /\ reason = ""
    /\ pc = 2
    /\ dpc = "idle"
    /\ user_id = 0
    /\ target_container = "none"
    /\ recovered = "none"
    /\ lastResp = NoResponse
    /\ analysis = NotEvaluated
    /\ startUsers = {}
    /\ acked = {}
    /\ pool = NoRequests
    /\ calls = NoCalls
    /\ overBudget = FALSE
    /\ app_requests_total = 0
    /\ app_requests_failed = 0
    /\ recording = NotRecording
    /\ handlers = NoHandlers
    /\ pooled = NoPool
    /\ greenlets = NoGreenlets

NextLoad ==
    \/ \E u \in LoadUsers : GreenletBuild(u)
    \/ \E u \in LoadUsers : GreenletPost(u)
    \/ \E k \in KindSet : LocustRequest(k)

SpecLoad == InitLoad /\ [][NextLoad]_vars

(***************************************************************************)
(*                              The claims                                 *)
(***************************************************************************)
Failed200(i) == probeLog[i] # 200

\* C1: wait_for_health returns true exactly when some probe returned 200;
\* it returns at the first such probe and issues no probe after it, and it
\* never returns true when no probe returned 200.
C1_TrueExactlyAtFirst200 ==
    /\ waitResult = "true" <=> \E i \in 1..Len(probeLog) : probeLog[i] = 200
    /\ \A i \in 1..Len(probeLog) :
         probeLog[i] = 200 => i = Len(probeLog) /\ wpc = "done" /\ waitResult = "true"
    /\ Len(probeLog) <= max_attempts

C1_Witness ==
    /\ wpc = "done" /\ waitResult = "true"
    /\ Len(probeLog) = 2 /\ probeLog[1] # 200 /\ probeLog[2] = 200
    /\ max_attempts > 2

Ended == phase \in {"teardown", "finished"}

\* the final entity count: the length of the list Step 6 received
FinalCount == Cardinality(lastResp.body)

\* C3: in the load-plus-chaos scenario the verdict is Passed only if the
\* error rate was evaluated and is below 30% and the final entity count is
\* above 0; an error rate at or above the threshold, or a final count of 0,
\* ends the scenario Failed.
C3_PassedOnlyBelowThreshold ==
    LoadChaos /\ Ended =>
      /\ verdict = "Passed" =>
           /\ analysis.evaluated
           /\ ErrorRateBelow(analysis.total_requests, analysis.failed_requests,
                             ErrorRateThreshold)
           /\ FinalCount > 0
      /\ (/\ analysis.evaluated
          /\ ~ErrorRateBelow(analysis.total_requests, analysis.failed_requests,
                             ErrorRateThreshold)) => verdict = "Failed"
      /\ (step.op = "list" /\ lastResp.status = 200 /\ FinalCount = 0) =>
           verdict = "Failed"

\* a statement after the recovery assertion has been reached
PastRecovery == \E i \in 1..(pc - 1) : Program(test)[i].op = "assert_recovered"

\* C4: when wait_for_health returns false the scenario ends Failed at the
\* recovery assertion; the statements after it (load draining, validation)
\* are reached only after wait_for_health returned true.
C4_FalseRecoveryFails ==
    /\ (phase # "none" /\ PastRecovery) => recovered = "true"
    /\ (recovered = "false" /\ Ended) =>
         /\ verdict = "Failed"
         /\ reason = "AssertionError"
         /\ step.op = "assert_recovered"
    /\ (recovered = "false" /\ ~Ended) => step.op = "assert_recovered"

C4_Witness ==
    /\ LoadChaos /\ recovered = "false" /\ verdict = "Failed"
    /\ locust = "running"

C6_LoadStoppedOnReturn ==
    (LoadChaos /\ Ended) => locust \in {"none", "exited"}

\* C7: the lifecycle commands of a scenario (stop, start, restart, with
\* their settle delays) have returned before the first health probe; no
\* probe of the recovery wait overlaps a lifecycle command.
C7_NoProbeDuringLifecycle ==
    /\ wpc # "idle" => action.stage = "idle" /\ action.caller = "gone"
    /\ (phase = "body" /\ wpc # "idle") =>
         /\ step.op = "wait_for_health"
         /\ \A i \in 1..(pc - 1) : Program(test)[i].op # "wait_for_health"

C7_Witness ==
    /\ LoadChaos /\ wpc = "sleep" /\ Len(probeLog) = 1
    /\ container[target_container] = "booting"

\* C8: every scenario body starts with the users table empty.
C8_BodyStartsEmpty ==
    phase \in {"body", "teardown", "finished"} => startUsers = {}

Taken(email, us) == \E u \in us : u.email = email

\* a POST statement of a body is executed by this step
PostStep == Ready /\ step.op = "post" /\ <<pc, phase>>' # <<pc, phase>>

\* C9: a POST /users/ with an email already in the table is answered 400
\* and leaves the table as it was; with a fresh email it is answered 201 and
\* adds exactly one row; after a 201 and a 400 for the same email the table
\* holds exactly one user with it (one user in all when it started empty).
C9_DuplicateRejected ==
    /\ [][PostStep =>
            /\ lastResp'.status \in {0, 201, 400, 500}
            /\ lastResp'.status = 400 =>
                 Taken(step.email, users) /\ users' = users
            /\ lastResp'.status = 201 =>
                 /\ ~Taken(step.email, users)
                 /\ \E u \in users' \ users :
                      /\ users' = users \cup {u}
                      /\ u.email = step.email
                      /\ lastResp'.body = {u}
            /\ (DbReachable /\ lastResp'.status # 0) =>
                 (lastResp'.status = 400 <=> Taken(step.email, users))]_vars
    /\ [](test = "test_transaction_rollback_on_error" /\ phase = "body" /\ pc = 3 =>
            /\ Cardinality({u \in users : u.email = Email("user", 1)}) = 1
            /\ users = startUsers \cup acked
            /\ Cardinality(acked) = 1
            /\ startUsers = {} => Cardinality(users) = 1)

C9_Witness ==
    /\ test = "test_transaction_rollback_on_error" /\ phase = "body" /\ pc = 3
    /\ lastResp.status = 400
    /\ Cardinality(users) = 1

\* C10: stop, start and restart neither lose nor duplicate rows: once
\* wait_for_health has returned true, the users listed (or fetched) are the
\* users that were in the table before the actions, those whose create
\* returned 201.
C10_LifecycleKeepsUsers ==
    /\ [][container' # container => users' = users /\ nextId' = nextId]_vars
    /\ [](~LoadChaos /\ phase # "none" /\ recovered = "true" /\ Ended =>
            /\ (step.op = "list" /\ lastResp.status = 200) =>
                 lastResp.body = startUsers \cup acked
            /\ (step.op = "get_user" /\ lastResp.status \notin {0, 500}) =>
                 /\ lastResp.status = 200
                 /\ lastResp.body \subseteq acked
                 /\ Cardinality(lastResp.body) = 1)

C10_Witness ==
    /\ test = "test_full_system_restart" /\ verdict = "Passed"
    /\ Cardinality(lastResp.body) = NumUsers
    /\ lastResp.body = acked

\* a step of the reset in progress (its list request or one of its deletes)
ResetStep == rpc \in {"get", "loop"} /\ <<rpc, todo>>' # <<rpc, todo>>

\* a request of the reset in progress has ended in a RequestError
ResetSawRequestError == \E i \in 1..Len(resetLog) : resetLog[i] = 0

\* C11 as stated: the reset never raises, and from the first request the
\* service did not answer on, it changes the table no further.
C11_NoChangeAfterFailure ==
    /\ [](rpc # "raised")
    /\ [][ResetStep /\ ResetSawRequestError => users' = users]_vars

\* C11 amended: the reset never raises; when the list request fails it
\* returns without issuing a delete; when a delete fails it goes on with the
\* remaining listed users, and all it ever does to the table is delete the
\* listed user the request is for; a request refused by a service that is
\* down changes nothing.
C11_NeverRaisesOnlyDeletesListed ==
    /\ [](rpc # "raised" /\ verdict # "Error")
    /\ [][ResetStep =>
            /\ rpc = "get" => users' = users
            /\ (rpc = "get" /\ (~ApiServes \/ ~DbReachable)) => rpc' = "idle"
            /\ rpc = "loop" =>
                 /\ users' \subseteq users
                 /\ \A u \in users \ users' : u.id \in todo /\ u.id \notin todo'
                 /\ todo' \subseteq todo /\ todo' # todo
            /\ (~ApiServes \/ ~DbReachable) => users' = users]_vars

C11_Witness ==
    /\ phase = "finished" /\ rpc = "idle"
    /\ resetLog = <<200, 0, 200>>
    /\ users = {}

\* every request of the reset that has just returned was answered 200
ResetAllServed == Len(resetLog) >= 1 /\ \A i \in 1..Len(resetLog) : resetLog[i] = 200

\* C12: the reset is idempotent: with every request served and nobody else
\* writing, a reset leaves 0 users; a reset that starts on the empty table
\* issues no delete, raises nothing and leaves 0 users.
C12_ResetIdempotent ==
    /\ [](rpc # "raised")
    /\ [](phase = "finished" /\ rpc = "idle" /\ ResetAllServed => users = {})
    /\ [][phase = "setup" /\ rpc = "get" /\ users = {} /\ ResetStep =>
            /\ rpc' = "idle" /\ todo' = {}
            /\ phase' = "body"
            /\ users' = {} /\ startUsers' = {}]_vars

C12_Witness ==
    /\ phase = "body" /\ rpc = "idle"
    /\ Cardinality(acked) = NumUsers
    /\ users = {} /\ startUsers = {}

\* the pool test has got all its results
PoolTestEnded == test = "test_connection_pool_exhaustion_handling" /\ Ended

\* C13: of the concurrent creates with distinct emails against a healthy
\* service at least half return 201 (5 of 10), in every interleaving of the
\* handlers: only a handler that finds the pool exhausted fails, so the
\* failures are at most the requests beyond the pool's capacity.
C13_AtLeastHalfCreated ==
    /\ Cardinality({i \in Creates : pool[i] = "done500"}) + PoolCapacity <= NumCreates
         \/ \A i \in Creates : pool[i] # "done500"
    /\ \A i \in Creates : pool[i] # "done400"
    /\ CheckedOut <= PoolCapacity
    /\ PoolTestEnded =>
         /\ successful_creations >= MinSuccessful
         /\ successful_creations <= Cardinality(users)
         /\ verdict = "Passed"

C13_Witness ==
    /\ PoolTestEnded /\ verdict = "Passed"
    /\ successful_creations = PoolCapacity
    /\ Cardinality({i \in Creates : pool[i] = "done500"}) = NumCreates - PoolCapacity
    /\ Cardinality(users) < NumCreates

\* the data rows of the stats file
ReportRows == {csv.lines[i] : i \in 2..Len(csv.lines)}

\* C14: in every load report the failures are at most the requests, and the
\* error rate validation uses is failed/total (as a percentage) when total
\* is above 0 and exactly 0 when total is 0, with no division fault.
C14_ErrorRateWellDefined ==
    /\ \A row \in ReportRows : ParseInt(row[4]) <= ParseInt(row[3])
    /\ \A k \in KindSet : stats[k].f <= stats[k].n
    /\ num_failures <= num_requests
    /\ analysis.raised # "ZeroDivisionError"
    /\ ~analysis.error_rate.fault
    /\ analysis.evaluated =>
         /\ analysis.failed_requests <= analysis.total_requests
         /\ analysis.total_requests = 0 => analysis.error_rate.num = 0
         /\ analysis.total_requests > 0 =>
              analysis.error_rate.num * analysis.total_requests =
                analysis.failed_requests * 100 * analysis.error_rate.den

C14_Witness ==
    /\ LoadChaos /\ analysis.evaluated /\ csv.run = "cur"
    /\ analysis.total_requests = 0
    /\ analysis.error_rate = Percent(0, 1)

\* C15: lifecycle actions on the same target never overlap: no two callers
\* are inside stop / start / restart (settle delay included) for the same
\* container at the same time.
C15_NoOverlapPerTarget ==
    \A v, w \in Callers :
        (v # w /\ calls[v].stage # "idle" /\ calls[w].stage # "idle") =>
            calls[v].target # calls[w].target

\* C16: a lifecycle action reports its outcome as a value and never raises:
\* no call of the docker helper ends by raising, and the scenario is never
\* left by an exception of the helper.
C16_LifecycleNeverRaises ==
    /\ action.stage # "raised"
    /\ action.stage = "settle" => action.ok
    /\ (phase \in {"body", "teardown", "finished"} /\ step.op = "docker") => reason # "OSError"

\* C17: in every call of wait_for_health the timeout of a probe is strictly
\* smaller than the delay between two attempts.
C17_ProbeTimeoutBelowDelay ==
    (phase = "body" /\ wpc # "idle") => WaitProbeTimeout < step.delay_seconds

\* C18: when the load generator has not completed within the drain wait it
\* is terminated and the scenario always goes on to the validation step: the
\* forced-termination path never ends the scenario.
C18_TerminationProceeds ==
    /\ (LoadChaos /\ Ended) => step.op # "drain"
    /\ (LoadChaos /\ dpc = "wait10") => ~Ended

\* C19: a scenario that exceeds its global wall-clock budget ends Failed
\* with reason ScenarioTimeout, its background load cancelled.
C19_BudgetEndsScenario ==
    (LoadChaos /\ overBudget /\ Ended) =>
        /\ verdict = "Failed"
        /\ reason = "ScenarioTimeout"
        /\ locust \in {"none", "exited"}

\* the calls of record_request that have returned, and those of them made
\* with success = False
RecordsDone == {r \in Recorders : recording[r].pc = "done"}
RecordsFailed == {r \in RecordsDone : ~recording[r].success}

\* C20: after any interleaving of n concurrent record_request calls
\* app_requests_total is n and app_requests_failed is the number of calls
\* made with success = False; app_requests_failed never exceeds
\* app_requests_total.
C20_CountersAtomic ==
    /\ app_requests_failed <= app_requests_total
    /\ (\A r \in Recorders : recording[r].pc \in {"idle", "done"}) =>
         /\ app_requests_total = Cardinality(RecordsDone)
         /\ app_requests_failed = Cardinality(RecordsFailed)

\* the stop of the chaos injection is carried out by docker in this step
Injection == LoadChaos /\ action.stage = "run" /\ action.cmd = "stop" /\ action'.ok

\* C21: in the load-plus-chaos scenario the stop is applied only while the
\* load generator is active: at the moment of injection the load process
\* has been started and has neither finished its run time nor exited.
C21_LoadActiveAtInjection ==
    [][Injection => locust \in {"starting", "running"}]_vars

\* C22: the error rate validation checks is computed over all requests of
\* the load run, of every operation kind: the figures it uses are the total
\* requests and the total failures of the run.
C22_ErrorRateOverAllRequests ==
    (LoadChaos /\ analysis.evaluated /\ csv.run = "cur") =>
        /\ analysis.total_requests = num_requests
        /\ analysis.failed_requests = num_failures

\* C23: GET /health returns 200 only when the API process is running and a
\* query against the database succeeds; so whenever wait_for_health returns
\* true, the API and the database were both up at the successful probe.
C23_HealthyMeansBothUp ==
    /\ [](health_check.status = 200 <=> DbReachable)
    /\ [](\A x \in Exchange([m |-> "HEALTH"]) :
             x.status = 200 => ApiServes /\ DbReachable)
    /\ [][(wpc = "probe" /\ Len(probeLog') > Len(probeLog) /\ probeLog'[Len(probeLog')] = 200) =>
            ApiServes /\ DbReachable]_vars
    /\ [][waitResult' = "true" /\ waitResult # "true" => ApiServes /\ DbReachable]_vars

C23_Witness ==
    /\ wpc = "done" /\ waitResult = "true"
    /\ probeLog = <<500, 200>>
    /\ \A t \in Targets : container[t] = "running"

\* the handler leaves get_db's `except OperationalError` clause in this step
OperationalErrorHandled(h) ==
    /\ handlers[h].pc = "except" /\ handlers[h].exc = "OperationalError"
    /\ handlers'[h].pc = "finally"

\* C24: the API recovers from a database stop and start without being
\* restarted: a request fails on the database only if the database was down
\* while it was handled; a request that hits an operational error rolls
\* back and disposes the pool; a /health request handled while the database
\* is up returns 200, whatever connections the pool held before.
C24_RecoversWithoutRestart ==
    /\ [](ApiServes)
    /\ [](\A h \in Handlers :
             (handlers[h].exc = "OperationalError" \/ handlers[h].conn = "dead") =>
                 handlers[h].saw_down)
    /\ [][\A h \in Handlers :
             OperationalErrorHandled(h) =>
                 /\ handlers'[h].rolled_back
                 /\ handlers'[h].status = 500
                 /\ pooled'.idle = "none"]_vars
    /\ [](\A h \in Handlers :
             (/\ handlers[h].pc = "done" /\ handlers[h].req.m = "HEALTH"
              /\ ~handlers[h].saw_down /\ handlers[h].exc # "SQLAlchemyError") =>
                 handlers[h].status = 200)

C24_Witness ==
    /\ DbReachable
    /\ \E g, h \in Handlers :
         /\ handlers[g].pc = "done" /\ handlers[g].exc = "OperationalError"
         /\ handlers[g].status = 500 /\ handlers[g].rolled_back
         /\ handlers[h].pc = "done" /\ handlers[h].req.m = "HEALTH"
         /\ handlers[h].status = 200 /\ ~handlers[h].saw_down
    /\ pooled.idle = "live"

\* the load users waiting for the response to their create
Posting == {u \in LoadUsers : greenlets[u].pc = "posting"}

\* C25: within one load run every create of the load generator carries an
\* email no other create of the run carries, however the simulated users
\* interleave: no two creates in flight share an email, and none repeats
\* the email of a user the run has already created.
C25_LoadEmailsUnique ==
    /\ \A u, v \in Posting : u # v => greenlets[u].email # greenlets[v].email
    /\ \A u \in Posting : ~Taken(greenlets[u].email, users)

\* the requests being handled, and the sessions get_db has opened and not closed
InFlight == {h \in Handlers : handlers[h].pc \in {"checkout", "query", "except", "finally"}}
OpenSessions == {h \in Handlers : handlers[h].session = "open"}

\* C26: every session get_db opens for a request is closed when the request
\* finishes, whatever the outcome (success, HTTP 4xx raised by the endpoint,
\* integrity error, operational error, other database error): the open
\* sessions are at most the requests in flight, and a finished request
\* holds no connection.
C26_SessionsClosed ==
    /\ OpenSessions \subseteq InFlight
    /\ Cardinality(OpenSessions) <= Cardinality(InFlight)
    /\ \A h \in Handlers :
         handlers[h].pc = "done" =>
             /\ handlers[h].session = "closed"
             /\ handlers[h].conn = "none"
    /\ \A h \in Handlers : handlers[h].conn # "none" => h \in InFlight
    /\ HeldConnections <= PoolCapacity

C26_Witness ==
    \E g, h \in Handlers :
        /\ handlers[g].pc = "done" /\ handlers[g].exc = "OperationalError"
        /\ handlers[g].session = "closed" /\ handlers[g].status = 500
        /\ handlers[h].pc = "done" /\ handlers[h].exc = "SQLAlchemyError"
        /\ handlers[h].session = "closed" /\ handlers[h].status = 500

\* the POST /users/ requests carrying this email that have got their answer
Answered(email) ==
    {h \in Handlers : /\ handlers[h].req.m = "POST" /\ handlers[h].req.email = email
                      /\ handlers[h].status # 0}

\* C27: however concurrent POST /users/ requests with the same email
\* interleave, at most one of them is answered 201; when the service has
\* answered all of them itself (201 or 400) exactly one got 201 and every
\* other 400; and no two persisted users ever share an email.
C27_OneCreateWins ==
    /\ \A u, v \in users : u.email = v.email => u = v
    /\ \A i \in 1..2 :
         LET email == Email("user", i)
             created == {h \in Answered(email) : handlers[h].status = 201}
         IN /\ Cardinality(created) <= 1
            /\ Cardinality(created) = Cardinality({u \in users : u.email = email})
            /\ (/\ Answered(email) # {}
                /\ \A h \in Answered(email) : handlers[h].status \in {201, 400}) =>
                   /\ Cardinality(created) = 1
                   /\ \A h \in Answered(email) \ created :
                        handlers[h].status = 400 /\ handlers[h].rolled_back

C27_Witness ==
    \E g, h \in Handlers :
        /\ handlers[g].req.m = "POST" /\ handlers[h].req = handlers[g].req
        /\ handlers[g].pc = "finally" /\ handlers[g].status = 201
        /\ handlers[h].pc = "done" /\ handlers[h].status = 400
        /\ Cardinality(users) = 1

\* C28: the load report validation evaluates was produced by the load run
\* of the same scenario: figures are taken, and Step 6 is reached, only with
\* a report written by the current run, never with one an earlier run left.
C28_ReportIsOfThisRun ==
    LoadChaos =>
        /\ analysis.evaluated => csv.run = "cur"
        /\ (phase \in {"body", "teardown", "finished"} /\ step.op = "list") =>
               csv.exists /\ csv.run = "cur"

=============================================================================
